---- MODULE Spec2Model ----
(***************************************************************************)
(* deployment/7_upgrade_1_6.js: the deploy(network) procedure that         *)
(* upgrades the wallet's module set to version 1.6.                        *)
(*                                                                         *)
(* deploy() is one async procedure.  Every remote call it makes is         *)
(* modelled by two steps: the call is issued (it is appended to `history`  *)
(* and enters `inflight`), and later it settles: it returns (its id enters *)
(* `completed`) or it is rejected (its id enters `failed`).  The procedure *)
(* is suspended while `awaiting` is not empty.                             *)
(*                                                                         *)
(* Addresses are integers, semantic versions are <<major, minor, patch>>,  *)
(* names and fingerprints are strings.                                     *)
(***************************************************************************)
EXTENDS Integers, Sequences, FiniteSets, TLC

\* ------------------------------------------------------------- constants

TARGET_VERSION == <<1, 6, 0>>

MODULES_TO_ENABLE ==
  <<"ApprovedTransfer", "RecoveryManager", "MakerV2Manager", "TransferManager">>

MODULES_TO_DISABLE == <<"UniswapManager">>

BACKWARD_COMPATIBILITY == 1

\* ---------------------------------------------------------------- bounds

\* Largest backward-compatibility window SpecWindow ranges over.
MaxWindow == 2

\* Largest patch number of a published version.
MaxPatch == 1

\* ------------------------------------------------------- array helpers

Range(s) == {s[i] : i \in DOMAIN s}

\* Array.prototype.includes
Includes(s, x) == \E i \in DOMAIN s : s[i] = x

\* modules.map((m) => m.address)
Addresses(modules) == [i \in DOMAIN modules |-> modules[i].address]

Max(S) == CHOOSE x \in S : \A y \in S : y <= x

\* ------------------------------------------------------------- semver

\* semver.lt(a, b) on release versions
SemverLt(a, b) ==
  \/ a[1] < b[1]
  \/ a[1] = b[1] /\ a[2] < b[2]
  \/ a[1] = b[1] /\ a[2] = b[2] /\ a[3] < b[3]

\* semver.inc(v, "patch") on a release version
SemverIncPatch(v) == <<v[1], v[2], v[3] + 1>>

\* NextVersionNumber testing semver.lte instead of semver.lt.
NextVersionNumberLte(v) ==
  IF SemverLt(v, TARGET_VERSION) \/ v = TARGET_VERSION
    THEN TARGET_VERSION
    ELSE SemverIncPatch(v)

\* newVersion.version, line 177
NextVersionNumber(v) ==
  IF SemverLt(v, TARGET_VERSION) THEN TARGET_VERSION ELSE SemverIncPatch(v)

\* ------------------------------------------------- utils (utilities.js)

RECURSIVE FingerprintOf(_)
FingerprintOf(S) ==
  IF S = {} THEN ""
  ELSE LET m == CHOOSE x \in S : \A y \in S : x.address <= y.address
       IN  m.name \o "@" \o ToString(m.address) \o ";" \o FingerprintOf(S \ {m})

\* utils.versionFingerprint(modules): a function of the set of
\* (name, address) pairs, whatever the order of the array.
VersionFingerprint(modules) == "0x" \o FingerprintOf(Range(modules))

\* utils.asciiToBytes32(name): the name as a bytes32 value.
AsciiToBytes32(name) == "bytes32:" \o name

\* ------------------------------------------------- the diff, lines 167-188

\* MODULES_TO_DISABLE.concat(MODULES_TO_ENABLE), line 168
ModuleNamesToRemove == MODULES_TO_DISABLE \o MODULES_TO_ENABLE

\* toRemove at index 0, line 169
ToRemoveLatest(version) ==
  SelectSeq(version.modules, LAMBDA m : Includes(ModuleNamesToRemove, m.name))

\* toAdd at index 0, lines 170-173
ToAddLatest(wrappers) ==
  [i \in DOMAIN wrappers |->
     [address |-> wrappers[i].address, name |-> wrappers[i].name]]

\* ToKeep filtering on MODULES_TO_DISABLE alone.
ToKeepDisabledOnly(version) ==
  SelectSeq(version.modules, LAMBDA m : ~Includes(MODULES_TO_DISABLE, m.name))

\* toKeep, line 174
ToKeep(version) ==
  SelectSeq(version.modules, LAMBDA m : ~Includes(ModuleNamesToRemove, m.name))

\* modulesInNewVersion, line 175
ModulesInNewVersion(version, wrappers) == ToKeep(version) \o ToAddLatest(wrappers)

\* ToAddOlder comparing module names instead of addresses.
ToAddOlderByName(version, target) ==
  SelectSeq(target.modules,
            LAMBDA m : ~Includes([i \in DOMAIN version.modules |->
                                    version.modules[i].name], m.name))

\* toAdd at index > 0, line 183
ToAddOlder(version, target) ==
  SelectSeq(target.modules,
            LAMBDA m : ~Includes(Addresses(version.modules), m.address))

\* toRemove at index > 0, line 185
ToRemoveOlder(version, target) ==
  SelectSeq(version.modules,
            LAMBDA m : ~Includes(Addresses(target.modules), m.address))

\* UpgraderName with the two fingerprints in the other order.
UpgraderNameSwapped(version, fp) == fp \o "_" \o version.fingerprint

\* upgraderName, line 188
UpgraderName(version, fp) == version.fingerprint \o "_" \o fp

\* ------------------------------------------------- published manifests

\* Module descriptors of the versions published before this upgrade.  An
\* address holds one contract, so no address has two names.
OldModules ==
  { [name |-> "GuardianManager",  address |-> 1],
    [name |-> "UniswapManager",   address |-> 2],
    [name |-> "ApprovedTransfer", address |-> 3] }

RECURSIVE SeqByAddress(_)
SeqByAddress(S) ==
  IF S = {} THEN << >>
  ELSE LET m == CHOOSE x \in S : \A y \in S : x.address <= y.address
       IN  <<m>> \o SeqByAddress(S \ {m})

PublishedVersionNumbers ==
  { <<ma, mi, pa>> : ma \in {1, 2}, mi \in {5, 6}, pa \in 0..MaxPatch }

Manifest(v, t, modules) ==
  [version |-> v, createdAt |-> t, modules |-> modules,
   fingerprint |-> VersionFingerprint(modules)]

\* What versionUploader.load(count) may return: the `count` most recent
\* published manifests, most recent first, fewer when fewer were published.
\* The script reads the version number of the first one only, so the older
\* ones all carry 1.5.0 here.
LoadResults(count) ==
  UNION { { vs \in [1..n -> { Manifest(v, 0, SeqByAddress(S)) :
                               v \in PublishedVersionNumbers,
                               S \in SUBSET OldModules }] :
              \A i \in 2..n : vs[i].version = <<1, 5, 0>> } : n \in 0..count }

\* ------------------------------------------------------------- state

VARIABLES
  pc,                 \* the phase deploy() is in
  step,               \* position in AwaitedCalls (lines 38-136)
  idx,                \* the loop index of lines 150 and 163
  awaiting,           \* ids of the calls deploy() is suspended on
  inflight,           \* calls issued and not yet settled
  history,            \* every remote call issued, in order of issue
  completed,          \* ids of the calls that returned
  failed,             \* ids of the calls that were rejected
  deployed,           \* contractAddress of each wrapper (0: not deployed)
  newModuleWrappers,  \* line 31
  nextAddr,           \* the address the next deployment gets
  clock,              \* the wall clock, in seconds
  abiStore,           \* the remote ABI catalog: key -> address (0: absent)
  window,             \* the argument of versionUploader.load
  versions,           \* line 162
  newVersion,         \* line 32
  fingerprint,        \* line 161
  toAdd, toRemove,    \* lines 165-166
  upgraderName,       \* line 188
  upgrader,           \* UpgraderWrapper.contractAddress, line 190
  uploaded            \* the manifests passed to versionUploader.upload

vars ==
  <<pc, step, idx, awaiting, inflight, history, completed, failed, deployed,
    newModuleWrappers, nextAddr, clock, abiStore, window, versions, newVersion,
    fingerprint, toAdd, toRemove, upgraderName, upgrader, uploaded>>

NewContracts ==
  {"MakerRegistry", "ApprovedTransfer", "RecoveryManager", "MakerV2Manager",
   "TransferManager"}

\* ------------------------------------------------------- remote calls

\* A remote call.  kind: "setup", "wrap", "read", "deploy", "tx", "save",
\* "abi", "multisig", "load" or "version"; name: the contract deployed or
\* wrapped, or the method called; to: the contract a transaction is sent to;
\* target: the contract a multisig call is forwarded to.
Call(kind, name, to, target, addr, label, remove, add) ==
  [id |-> Len(history) + 1, kind |-> kind, name |-> name, to |-> to,
   target |-> target, addr |-> addr, label |-> label, remove |-> remove,
   add |-> add]

SimpleCall(kind, name, to) == Call(kind, name, to, "", 0, "", << >>, << >>)

\* multisigExecutor.executeCall(ModuleRegistryWrapper, method, [address, name])
ExecuteCall(method, address, name) ==
  Call("multisig", method, "MultiSigWallet", "ModuleRegistry", address, name,
       << >>, << >>)

\* The calls that are transactions on the blockchain.
IsTransaction(op) == op.kind \in {"deploy", "tx", "multisig"}

\* The awaited calls of lines 38-136, in program order.  push: the wrapper
\* is pushed to newModuleWrappers.
CallTable ==
  << [kind |-> "setup",  name |-> "DeployManager",     to |-> "", push |-> FALSE],
     [kind |-> "wrap",   name |-> "ModuleRegistry",    to |-> "", push |-> FALSE],
     [kind |-> "wrap",   name |-> "MultiSigWallet",    to |-> "", push |-> FALSE],
     [kind |-> "wrap",   name |-> "ScdMcdMigration",   to |-> "", push |-> FALSE],
     [kind |-> "read",   name |-> "vat",               to |-> "ScdMcdMigration", push |-> FALSE],
     [kind |-> "deploy", name |-> "MakerRegistry",     to |-> "", push |-> FALSE],
     [kind |-> "read",   name |-> "wethJoin",          to |-> "ScdMcdMigration", push |-> FALSE],
     [kind |-> "tx",     name |-> "addCollateral",     to |-> "MakerRegistry", push |-> FALSE],
     [kind |-> "tx",     name |-> "changeOwner",       to |-> "MakerRegistry", push |-> FALSE],
     [kind |-> "wrap",   name |-> "TokenPriceProvider", to |-> "", push |-> FALSE],
     [kind |-> "deploy", name |-> "ApprovedTransfer",  to |-> "", push |-> TRUE],
     [kind |-> "deploy", name |-> "RecoveryManager",   to |-> "", push |-> TRUE],
     [kind |-> "deploy", name |-> "MakerV2Manager",    to |-> "", push |-> TRUE],
     [kind |-> "deploy", name |-> "TransferManager",   to |-> "", push |-> TRUE],
     [kind |-> "save",   name |-> "configurator",      to |-> "", push |-> FALSE] >>

\* CallTable with changeOwner sent before addCollateral.
CallTableOwnerFirst ==
  [i \in DOMAIN CallTable |->
     IF CallTable[i].name = "addCollateral" THEN CallTable[i + 1]
     ELSE IF CallTable[i].name = "changeOwner" THEN CallTable[i - 1]
     ELSE CallTable[i]]

AwaitedCalls == CallTable

\* The wrappers passed to abiUploader.upload, lines 139-143.
AbiUploads ==
  << [name |-> "ApprovedTransfer", folder |-> "modules"],
     [name |-> "RecoveryManager",  folder |-> "modules"],
     [name |-> "MakerV2Manager",   folder |-> "modules"],
     [name |-> "TransferManager",  folder |-> "modules"],
     [name |-> "MakerRegistry",    folder |-> "contracts"] >>

\* The key abiUploader.upload(wrapper, folder) writes.
AbiKey(folder, name) == folder \o "/" \o name

AbiKeys == {AbiKey(AbiUploads[i].folder, AbiUploads[i].name) : i \in DOMAIN AbiUploads}

\* The awaits dropped: deploy() goes on while its calls are in flight.
NeverSuspended == FALSE

\* deploy() is suspended at an await.
Suspended == awaiting # {}

\* A rejection caught and ignored: deploy() stays where it was.
OnRejectionIgnored(p) == p

\* Where deploy() goes when an awaited call is rejected: there is no
\* try/catch, the rejection leaves deploy().
OnRejection(p) == "aborted"

\* Promise.race in place of Promise.all: the first upload to return resumes.
PromiseRaceResolved(pending) == TRUE

\* await Promise.all([...]) resumes once none of its promises is pending.
PromiseAllResolved(pending) == pending = {}

\* The loop condition of line 150 off by one.
RegisterLoopOffByOne(i) == i < Len(newModuleWrappers) - 1

\* idx < newModuleWrappers.length, line 150
RegisterLoopCondition(i) == i < Len(newModuleWrappers)

\* idx < versions.length, line 163
UpgraderLoopCondition(i, vs) == i < Len(vs)

Issue(op) ==
  /\ history' = Append(history, op)
  /\ inflight' = inflight \cup {op}
  /\ awaiting' = {op.id}

Return(op) ==
  /\ inflight' = inflight \ {op}
  /\ completed' = completed \cup {op.id}
  /\ clock' = clock + 1

Awaited == {op \in inflight : op.id \in awaiting}

\* ------------------------------------------------------------- Init

InitWith(W) ==
  /\ pc = "calls"
  /\ step = 1
  /\ idx = 0
  /\ awaiting = {}
  /\ inflight = {}
  /\ history = << >>
  /\ completed = {}
  /\ failed = {}
  /\ deployed = [c \in NewContracts |-> 0]
  /\ newModuleWrappers = << >>
  /\ nextAddr = Max({m.address : m \in OldModules}) + 1
  /\ clock = 1
  /\ abiStore = [k \in AbiKeys |-> 0]
  /\ window \in W
  /\ versions = << >>
  /\ newVersion = << >>
  /\ fingerprint = "undefined"
  /\ toAdd = << >>
  /\ toRemove = << >>
  /\ upgraderName = ""
  /\ upgrader = 0
  /\ uploaded = << >>

Init == InitWith({BACKWARD_COMPATIBILITY})

\* ---------------------------------------------- lines 38-136, in sequence

CallStep ==
  /\ pc = "calls"
  /\ ~Suspended
  /\ step <= Len(AwaitedCalls)
  /\ Issue(SimpleCall(AwaitedCalls[step].kind, AwaitedCalls[step].name,
                      AwaitedCalls[step].to))
  /\ UNCHANGED <<pc, step, idx, completed, failed, deployed, newModuleWrappers,
                 nextAddr, clock, abiStore, window, versions, newVersion,
                 fingerprint, toAdd, toRemove, upgraderName, upgrader, uploaded>>

ReturnStep ==
  /\ pc = "calls"
  /\ \E op \in Awaited :
       /\ Return(op)
       /\ awaiting' = {}
       /\ IF op.kind = "deploy"
            THEN /\ deployed' = [deployed EXCEPT ![op.name] = nextAddr]
                 /\ nextAddr' = nextAddr + 1
                 /\ newModuleWrappers' =
                      IF AwaitedCalls[step].push
                        THEN Append(newModuleWrappers,
                                    [name |-> op.name, address |-> nextAddr])
                        ELSE newModuleWrappers
            ELSE UNCHANGED <<deployed, nextAddr, newModuleWrappers>>
  /\ step' = step + 1
  /\ pc' = IF step = Len(AwaitedCalls) THEN "abi" ELSE "calls"
  /\ UNCHANGED <<idx, history, failed, abiStore, window, versions, newVersion,
                 fingerprint, toAdd, toRemove, upgraderName, upgrader, uploaded>>

\* A call in flight is rejected.  An awaited one throws out of deploy().
Reject ==
  /\ \E op \in inflight :
       /\ inflight' = inflight \ {op}
       /\ failed' = failed \cup {op.id}
       /\ IF op.id \in awaiting
            THEN pc' = OnRejection(pc) /\ awaiting' = {}
            ELSE UNCHANGED <<pc, awaiting>>
  /\ UNCHANGED <<step, idx, history, completed, deployed, newModuleWrappers,
                 nextAddr, clock, abiStore, window, versions, newVersion,
                 fingerprint, toAdd, toRemove, upgraderName, upgrader, uploaded>>

\* ------------------------------------------------- lines 138-144, ABIs

AbiCalls ==
  [i \in DOMAIN AbiUploads |->
     [id |-> Len(history) + i, kind |-> "abi", name |-> AbiUploads[i].name,
      to |-> "", target |-> AbiUploads[i].folder,
      addr |-> deployed[AbiUploads[i].name], label |-> "",
      remove |-> << >>, add |-> << >>]]

\* The five uploads are called one after the other while the array is built;
\* Promise.all then awaits them together.
CallAbiUploads ==
  /\ pc = "abi"
  /\ ~Suspended
  /\ history' = history \o AbiCalls
  /\ inflight' = inflight \cup Range(AbiCalls)
  /\ awaiting' = {op.id : op \in Range(AbiCalls)}
  /\ UNCHANGED <<pc, step, idx, completed, failed, deployed, newModuleWrappers,
                 nextAddr, clock, abiStore, window, versions, newVersion,
                 fingerprint, toAdd, toRemove, upgraderName, upgrader, uploaded>>

\* One upload completes; an upload already under way also completes after
\* deploy() was left by a rejection.
ReturnAbiUpload ==
  /\ \E op \in inflight :
       /\ op.kind = "abi"
       /\ Return(op)
       /\ abiStore' = [abiStore EXCEPT ![AbiKey(op.target, op.name)] = op.addr]
       /\ IF pc = "abi" /\ PromiseAllResolved(awaiting \ {op.id})
            THEN /\ pc' = IF RegisterLoopCondition(0) THEN "register" ELSE "load"
                 /\ awaiting' = {}
            ELSE pc' = pc /\ awaiting' = awaiting \ {op.id}
  /\ idx' = 0
  /\ UNCHANGED <<step, history, failed, deployed, newModuleWrappers, nextAddr,
                 window, versions, newVersion, fingerprint, toAdd, toRemove,
                 upgraderName, upgrader, uploaded>>

\* ------------------------------------------ lines 150-154, registration

CallRegisterModule ==
  /\ pc = "register"
  /\ ~Suspended
  /\ RegisterLoopCondition(idx)
  /\ Issue(ExecuteCall("registerModule", newModuleWrappers[idx + 1].address,
                       AsciiToBytes32(newModuleWrappers[idx + 1].name)))
  /\ UNCHANGED <<pc, step, idx, completed, failed, deployed, newModuleWrappers,
                 nextAddr, clock, abiStore, window, versions, newVersion,
                 fingerprint, toAdd, toRemove, upgraderName, upgrader, uploaded>>

ReturnRegisterModule ==
  /\ pc = "register"
  /\ \E op \in Awaited : Return(op)
  /\ awaiting' = {}
  /\ idx' = idx + 1
  /\ pc' = IF RegisterLoopCondition(idx + 1) THEN "register" ELSE "load"
  /\ UNCHANGED <<step, history, failed, deployed, newModuleWrappers, nextAddr,
                 abiStore, window, versions, newVersion, fingerprint, toAdd,
                 toRemove, upgraderName, upgrader, uploaded>>

\* ------------------------------------------------- line 162, the history

CallLoad ==
  /\ pc = "load"
  /\ ~Suspended
  /\ Issue(SimpleCall("load", "versionUploader", ""))
  /\ UNCHANGED <<pc, step, idx, completed, failed, deployed, newModuleWrappers,
                 nextAddr, clock, abiStore, window, versions, newVersion,
                 fingerprint, toAdd, toRemove, upgraderName, upgrader, uploaded>>

ReturnLoad ==
  /\ pc = "load"
  /\ \E op \in Awaited : Return(op)
  /\ awaiting' = {}
  /\ \E vs \in LoadResults(window) :
       /\ versions' = vs
       /\ pc' = IF UpgraderLoopCondition(0, vs) THEN "diff" ELSE "upload"
  /\ idx' = 0
  /\ UNCHANGED <<step, history, failed, deployed, newModuleWrappers, nextAddr,
                 abiStore, window, newVersion, fingerprint, toAdd, toRemove,
                 upgraderName, upgrader, uploaded>>

\* ------------------------------------- lines 163-202, one upgrader each

\* Lines 164-188: the diff of versions[idx] and the upgrader's name.
Diff ==
  /\ pc = "diff"
  /\ LET version == versions[idx + 1] IN
       IF idx = 0
         THEN /\ toRemove' = ToRemoveLatest(version)
              /\ toAdd' = ToAddLatest(newModuleWrappers)
              /\ fingerprint' =
                   VersionFingerprint(ModulesInNewVersion(version, newModuleWrappers))
              /\ newVersion' =
                   [version |-> NextVersionNumber(version.version),
                    createdAt |-> clock,
                    modules |-> ModulesInNewVersion(version, newModuleWrappers),
                    fingerprint |-> fingerprint']
              /\ upgraderName' = UpgraderName(version, fingerprint')
         ELSE /\ toAdd' = ToAddOlder(version, newVersion)
              /\ toRemove' = ToRemoveOlder(version, newVersion)
              /\ upgraderName' = UpgraderName(version, fingerprint)
              /\ UNCHANGED <<newVersion, fingerprint>>
  /\ pc' = "deployUpgrader"
  /\ UNCHANGED <<step, idx, awaiting, inflight, history, completed, failed,
                 deployed, newModuleWrappers, nextAddr, clock, abiStore, window,
                 versions, upgrader, uploaded>>

\* Lines 190-196.
CallDeployUpgrader ==
  /\ pc = "deployUpgrader"
  /\ ~Suspended
  /\ Issue(Call("deploy", "SimpleUpgrader", "", "", 0, "",
                Addresses(toRemove), Addresses(toAdd)))
  /\ UNCHANGED <<pc, step, idx, completed, failed, deployed, newModuleWrappers,
                 nextAddr, clock, abiStore, window, versions, newVersion,
                 fingerprint, toAdd, toRemove, upgraderName, upgrader, uploaded>>

ReturnDeployUpgrader ==
  /\ pc = "deployUpgrader"
  /\ \E op \in Awaited : Return(op)
  /\ awaiting' = {}
  /\ upgrader' = nextAddr
  /\ nextAddr' = nextAddr + 1
  /\ pc' = "registerModule"
  /\ UNCHANGED <<step, idx, history, failed, deployed, newModuleWrappers,
                 abiStore, window, versions, newVersion, fingerprint, toAdd,
                 toRemove, upgraderName, uploaded>>

\* Lines 197-198.
CallUpgraderRegisterModule ==
  /\ pc = "registerModule"
  /\ ~Suspended
  /\ Issue(ExecuteCall("registerModule", upgrader, AsciiToBytes32(upgraderName)))
  /\ UNCHANGED <<pc, step, idx, completed, failed, deployed, newModuleWrappers,
                 nextAddr, clock, abiStore, window, versions, newVersion,
                 fingerprint, toAdd, toRemove, upgraderName, upgrader, uploaded>>

ReturnUpgraderRegisterModule ==
  /\ pc = "registerModule"
  /\ \E op \in Awaited : Return(op)
  /\ awaiting' = {}
  /\ pc' = "registerUpgrader"
  /\ UNCHANGED <<step, idx, history, failed, deployed, newModuleWrappers,
                 nextAddr, abiStore, window, versions, newVersion, fingerprint,
                 toAdd, toRemove, upgraderName, upgrader, uploaded>>

\* Lines 200-201.
CallRegisterUpgrader ==
  /\ pc = "registerUpgrader"
  /\ ~Suspended
  /\ Issue(ExecuteCall("registerUpgrader", upgrader, AsciiToBytes32(upgraderName)))
  /\ UNCHANGED <<pc, step, idx, completed, failed, deployed, newModuleWrappers,
                 nextAddr, clock, abiStore, window, versions, newVersion,
                 fingerprint, toAdd, toRemove, upgraderName, upgrader, uploaded>>

ReturnRegisterUpgrader ==
  /\ pc = "registerUpgrader"
  /\ \E op \in Awaited : Return(op)
  /\ awaiting' = {}
  /\ idx' = idx + 1
  /\ pc' = IF UpgraderLoopCondition(idx + 1, versions) THEN "diff" ELSE "upload"
  /\ UNCHANGED <<step, history, failed, deployed, newModuleWrappers, nextAddr,
                 abiStore, window, versions, newVersion, fingerprint, toAdd,
                 toRemove, upgraderName, upgrader, uploaded>>

\* ------------------------------------------------- line 208, publication

CallUpload ==
  /\ pc = "upload"
  /\ ~Suspended
  /\ Issue(SimpleCall("version", "versionUploader", ""))
  /\ uploaded' = Append(uploaded, newVersion)
  /\ UNCHANGED <<pc, step, idx, completed, failed, deployed, newModuleWrappers,
                 nextAddr, clock, abiStore, window, versions, newVersion,
                 fingerprint, toAdd, toRemove, upgraderName, upgrader>>

ReturnUpload ==
  /\ pc = "upload"
  /\ \E op \in Awaited : Return(op)
  /\ awaiting' = {}
  /\ pc' = "done"
  /\ UNCHANGED <<step, idx, history, failed, deployed, newModuleWrappers,
                 nextAddr, abiStore, window, versions, newVersion, fingerprint,
                 toAdd, toRemove, upgraderName, upgrader, uploaded>>

\* ------------------------------------------------------ specifications

Next ==
  \/ CallStep
  \/ ReturnStep
  \/ Reject
  \/ CallAbiUploads
  \/ ReturnAbiUpload
  \/ CallRegisterModule
  \/ ReturnRegisterModule
  \/ CallLoad
  \/ ReturnLoad
  \/ Diff
  \/ CallDeployUpgrader
  \/ ReturnDeployUpgrader
  \/ CallUpgraderRegisterModule
  \/ ReturnUpgraderRegisterModule
  \/ CallRegisterUpgrader
  \/ ReturnRegisterUpgrader
  \/ CallUpload
  \/ ReturnUpload

\* deploy() as written: versionUploader.load(BACKWARD_COMPATIBILITY).
Spec == Init /\ [][Next]_vars

\* deploy() with the backward-compatibility window set to any value up to
\* MaxWindow: with the window of 1 the script is written with, load returns
\* at most one manifest and the loop never reaches an index above 0.
InitWindow == InitWith(1..MaxWindow)

SpecWindow == InitWindow /\ [][Next]_vars

\* ------------------------------------------------------------ claims

Issued == Range(history)

Done(op) == op.id \in completed

\* newVersion has been filled in (lines 177-180).
Finalized == DOMAIN newVersion # {}

\* The calls of the upgrader loop issued so far, in order of issue.
UpgraderCalls ==
  LET loads == {i \in DOMAIN history : history[i].kind = "load"}
  IN  IF loads = {} THEN << >>
      ELSE SelectSeq(SubSeq(history, Max(loads) + 1, Len(history)),
                     LAMBDA op : op.kind \in {"deploy", "multisig"})

\* The diff the loop computes for versions[k].
RemovedFrom(k) ==
  IF k = 1 THEN ToRemoveLatest(versions[1])
           ELSE ToRemoveOlder(versions[k], newVersion)

AddedTo(k) ==
  IF k = 1 THEN ToAddLatest(newModuleWrappers)
           ELSE ToAddOlder(versions[k], newVersion)

\* C1: once the most recent historical version (index 0) has been processed,
\* the module set of newVersion is that version's modules without those named
\* in MODULES_TO_DISABLE or MODULES_TO_ENABLE, together with the newly
\* deployed modules.
C1_TargetModuleSet ==
  Finalized =>
    Range(newVersion.modules) =
      { m \in Range(versions[1].modules) :
          m.name \notin Range(MODULES_TO_DISABLE) \cup Range(MODULES_TO_ENABLE) }
      \cup Range(newModuleWrappers)

\* The spec's example: a kept module, a disabled one and an old copy of an
\* enabled one in the history; the target keeps the first only and adds the
\* four new modules.
C1_Witness ==
  /\ Finalized
  /\ Len(versions[1].modules) = 3
  /\ {m.name : m \in Range(versions[1].modules)} =
       {"GuardianManager", "UniswapManager", "ApprovedTransfer"}
  /\ Len(newVersion.modules) = 5
  /\ newVersion.modules[1] = [name |-> "GuardianManager", address |-> 1]

\* C2: for an older historical version (index > 0), toAdd and toRemove share
\* no module, and toAdd together with the version's modules outside toRemove
\* is the module set of newVersion.
C2_OlderDiff ==
  (pc \in {"deployUpgrader", "registerModule", "registerUpgrader"} /\ idx > 0) =>
    /\ Range(toAdd) \cap Range(toRemove) = {}
    /\ Range(toAdd) \cup (Range(versions[idx + 1].modules) \ Range(toRemove))
         = Range(newVersion.modules)

\* An older version that holds a module the target keeps and two that the
\* latest version no longer has: these two are removed, the four new modules
\* are added.
C2_Witness ==
  /\ pc = "registerUpgrader"
  /\ idx = 1
  /\ Len(toAdd) = 4
  /\ Len(toRemove) = 2
  /\ Len(versions[2].modules) = 3
  /\ Len(versions[1].modules) = 1
  /\ [name |-> "GuardianManager", address |-> 1] \in Range(newVersion.modules)
  /\ [name |-> "UniswapManager", address |-> 2] \in Range(toRemove)

\* C3: every manifest passed to versionUploader.upload has a version, a
\* creation timestamp, a module list and a fingerprint, and the fingerprint is
\* versionFingerprint of that module list.
C3_ManifestComplete ==
  \A i \in DOMAIN uploaded :
    /\ DOMAIN uploaded[i] = {"version", "createdAt", "modules", "fingerprint"}
    /\ uploaded[i].fingerprint = VersionFingerprint(uploaded[i].modules)

\* C4: at most one blockchain transaction is submitted and not yet confirmed.
C4_OneTransactionInFlight ==
  Cardinality({op \in inflight : IsTransaction(op)}) <= 1

\* A multisig call in flight after deployments and transactions confirmed.
C4_Witness ==
  /\ \E op \in inflight : op.kind = "multisig"
  /\ \E op \in Issued : op.name = "changeOwner" /\ Done(op)
  /\ \E op \in Issued : op.name = "SimpleUpgrader" /\ Done(op)

\* C5: once a remote call has failed, no remote call is issued any more, and
\* when the failed call is not the version upload itself, no manifest is
\* ever uploaded in that run.
C5_AbortOnFailure ==
  [][ /\ failed # {} => history' = history
      /\ (\E op \in Issued : op.id \in failed /\ op.kind # "version") =>
           /\ uploaded = << >>
           /\ \A op \in Issued : op.kind # "version" ]_vars

\* A multisig call of the upgrader loop failed and the run was left.
C5_Witness ==
  /\ pc = "aborted"
  /\ \E op \in Issued :
       op.id \in failed /\ op.kind = "multisig" /\ op.name = "registerUpgrader"

\* C6: only ABI uploads are in flight together; their keys are pairwise
\* distinct; once the five have completed the ABI store maps each key to the
\* address of its wrapper; no registerModule call is issued before the five
\* have completed.
C6_AbiUploads ==
  /\ Cardinality(inflight) > 1 => \A op \in inflight : op.kind = "abi"
  /\ \A i, j \in DOMAIN AbiUploads :
       i # j => AbiKey(AbiUploads[i].folder, AbiUploads[i].name)
                  # AbiKey(AbiUploads[j].folder, AbiUploads[j].name)
  /\ (Cardinality({op \in Issued : op.kind = "abi" /\ Done(op)}) = Len(AbiUploads)) =>
       \A i \in DOMAIN AbiUploads :
         abiStore[AbiKey(AbiUploads[i].folder, AbiUploads[i].name)]
           = deployed[AbiUploads[i].name]
  /\ (\E op \in Issued : op.name = "registerModule") =>
       Cardinality({op \in Issued : op.kind = "abi" /\ Done(op)}) = Len(AbiUploads)

\* The five uploads completed and the first registerModule call was issued.
C6_Witness ==
  /\ Cardinality({op \in Issued : op.kind = "abi" /\ Done(op)}) = 5
  /\ \A k \in AbiKeys : abiStore[k] # 0
  /\ \E op \in inflight : op.name = "registerModule"

\* C7: the calls of the upgrader loop come in threes, one three per
\* historical version: the deployment of an upgrader with the addresses of
\* that version's toRemove and toAdd, then registerModule, then
\* registerUpgrader (issued once registerModule returned), both for that
\* upgrader and under the name "<version fingerprint>_<target fingerprint>",
\* the target fingerprint being that of the manifest finalized at index 0;
\* when the loop is over there is one three per version.
C7_UpgraderPerVersion ==
  LET U == UpgraderCalls
      TargetFingerprint ==
        VersionFingerprint(ToKeep(versions[1]) \o ToAddLatest(newModuleWrappers))
  IN
  /\ Len(U) <= 3 * Len(versions)
  /\ pc \in {"upload", "done"} => Len(U) = 3 * Len(versions)
  /\ \A j \in DOMAIN U :
       LET k == ((j - 1) \div 3) + 1
           name == versions[k].fingerprint \o "_" \o TargetFingerprint
       IN  CASE (j - 1) % 3 = 0 ->
                  /\ U[j].kind = "deploy"
                  /\ U[j].name = "SimpleUpgrader"
                  /\ U[j].remove = Addresses(RemovedFrom(k))
                  /\ U[j].add = Addresses(AddedTo(k))
            [] (j - 1) % 3 = 1 ->
                  /\ U[j].kind = "multisig"
                  /\ U[j].name = "registerModule"
                  /\ U[j].label = AsciiToBytes32(name)
                  /\ Done(U[j - 1])
                  /\ j = Len(U) => U[j].addr = upgrader
                  /\ \A i \in 1..(j - 1) : U[i].addr # U[j].addr
            [] (j - 1) % 3 = 2 ->
                  /\ U[j].kind = "multisig"
                  /\ U[j].name = "registerUpgrader"
                  /\ U[j].label = U[j - 1].label
                  /\ U[j].addr = U[j - 1].addr
                  /\ j = Len(U) => U[j].addr = upgrader
                  /\ Done(U[j - 1])

\* Two historical versions with different module sets, both upgraders
\* registered.
C7_Witness ==
  /\ pc = "upload"
  /\ Len(versions) = 2
  /\ versions[1].fingerprint # versions[2].fingerprint
  /\ Len(UpgraderCalls) = 6
  /\ UpgraderCalls[6].name = "registerUpgrader"
  /\ UpgraderCalls[3].label # UpgraderCalls[6].label

\* C8: before any upgrader is deployed or registered, each of the four new
\* modules has been registered by a registerModule call that returned; before
\* the manifest is uploaded, every historical version's upgrader has been
\* registered by a registerModule and a registerUpgrader call that returned.
C8_PhaseOrder ==
  /\ UpgraderCalls # << >> =>
       \A n \in Range(MODULES_TO_ENABLE) :
         \E op \in Issued :
           /\ op.name = "registerModule"
           /\ op.addr = deployed[n]
           /\ op.addr # 0
           /\ op.label = AsciiToBytes32(n)
           /\ Done(op)
           /\ op.id < UpgraderCalls[1].id
  /\ (\E v \in Issued : v.kind = "version") =>
       /\ Len(UpgraderCalls) = 3 * Len(versions)
       /\ \A j \in DOMAIN UpgraderCalls : Done(UpgraderCalls[j])

\* The manifest is being uploaded after an upgrader was registered.
C8_Witness ==
  /\ \E v \in inflight : v.kind = "version"
  /\ Len(versions) = 1
  /\ Len(UpgraderCalls) = 3

\* C9: the version number of newVersion is above that of the most recent
\* historical version and not below TARGET_VERSION: TARGET_VERSION when the
\* historical one is below it, else the historical one with its patch number
\* plus one.
C9_VersionNumber ==
  Finalized =>
    LET h == versions[1].version
        n == newVersion.version
        Below(a, b) ==
          \E i \in 1..3 : a[i] < b[i] /\ \A j \in 1..(i - 1) : a[j] = b[j]
    IN  /\ Below(h, n)
        /\ ~Below(n, TARGET_VERSION)
        /\ n = IF Below(h, TARGET_VERSION) THEN TARGET_VERSION
                                          ELSE <<h[1], h[2], h[3] + 1>>

\* A history already at TARGET_VERSION: the patch number goes up.
C9_Witness ==
  /\ Finalized
  /\ versions[1].version = TARGET_VERSION
  /\ newVersion.version = <<1, 6, 1>>

\* C10: changeOwner is sent only once addCollateral is confirmed, and no
\* transaction to the MakerRegistry is sent after changeOwner.
C10_RegistryOwnership ==
  \A c \in Issued :
    c.name = "changeOwner" =>
      /\ \E a \in Issued : a.name = "addCollateral" /\ a.id < c.id /\ Done(a)
      /\ \A op \in Issued :
           (op.id > c.id /\ IsTransaction(op)) => op.to # "MakerRegistry"

\* Ownership was transferred and later transactions were sent.
C10_Witness ==
  /\ \E c \in Issued : c.name = "changeOwner" /\ Done(c)
  /\ \E op \in Issued : op.name = "registerUpgrader" /\ Done(op)

====
